---- MODULE Spec2Model ----
(***************************************************************************)
(* Magnet health-probing subsystem of Ghost: the sampled and the full DHT  *)
(* scan (packages/worker/dht/scan.py), the resource store and the build    *)
(* state singleton they write (packages/db/models.py), the process-wide    *)
(* asyncio lock that serialises full scans, the admin scan-all endpoint    *)
(* (apps/api/routers/admin.py), the libtorrent swarm prober                *)
(* (packages/worker/dht/libtorrent_checker.py), and what runs beside the   *)
(* scans on the same store: the takedown and update requests               *)
(* (apps/api/routers/resources.py) and the build pipeline                  *)
(* (packages/worker/build/pipeline.py).                                    *)
(***************************************************************************)
EXTENDS Integers, Sequences, FiniteSets, TLC

\* ---------------------------------------------------------------- bounds
NumRes == 2
NumFull == 2
NumSampled == 1
\* check calls on one session, seconds of timeout, peers seen in one poll
MaxChecks == 2
MaxTimeout == 2
MaxPeers == 2
\* the magnets a resource has over time: the one it was created with and
\* those update_resource gives it
MaxMagnet == 2

\* ------------------------------------------------------ program constants
DefaultSampleSize == 20

RIDs == 1..NumRes
FullScans == 1..NumFull
SampledScans == (NumFull + 1)..(NumFull + NumSampled)
Scans == FullScans \cup SampledScans

DhtStatus == {"Active", "Stale", "Unknown"}
None == "None"
Raise == "raise"
\* what one call of checker.check can do: return a probe or raise
CheckOutcomes == {"Active", "Stale", Raise}
\* sample_size arguments of run_dht_health_scan: None (<<>>) or an integer
SampleSizes == {0, 1, NumRes}
SampleSizeArgs == {<<>>} \cup {<<n>> : n \in SampleSizes}

\* sample_size or int(os.getenv("GHOST_DHT_SAMPLE_SIZE", "20")): None and 0
\* are falsy
SampleLimit(sample_size) ==
    IF sample_size = <<>> \/ sample_size = <<0>> THEN <<DefaultSampleSize>>
    ELSE sample_size

VARIABLES resources, buildState, SCAN_ALL_LOCK, scan, http, checker, pipeline

vars == <<resources, buildState, SCAN_ALL_LOCK, scan, http, checker, pipeline>>

\* ---------------------------------------------------------------- helpers
Min(a, b) == IF a < b THEN a ELSE b

Range(f) == {f[i] : i \in DOMAIN f}

\* all arrangements of k distinct elements of S
Arrangements(S, k) ==
    {q \in [1..k -> S] : \A i, j \in 1..k : i # j => q[i] # q[j]}

RECURSIVE Ascending(_)
Ascending(S) ==
    IF S = {} THEN <<>>
    ELSE LET m == CHOOSE x \in S : \A y \in S : x <= y
         IN <<m>> \o Ascending(S \ {m})

\* ------------------------------------------------------------- the store
\* A row of the resource table with the columns the scans and the requests
\* beside them read or write. Times are small integers: 0 is the time the
\* row was created (and null for last_dht_check); magnet_uri numbers the
\* magnets the resource has had, 1 being the one it was created with.
Resource(status) ==
    [exists |-> TRUE, dht_status |-> status, last_dht_check |-> 0,
     takedown_at |-> FALSE, updated_at |-> 0, magnet_uri |-> 1]

NoResource ==
    [exists |-> FALSE, dht_status |-> "Unknown", last_dht_check |-> 0,
     takedown_at |-> FALSE, updated_at |-> 0, magnet_uri |-> 1]

NoBuildState ==
    [exists |-> FALSE, pending_changes |-> FALSE, pending_reason |-> None]

ensure_build_state(state) ==
    IF state.exists THEN state
    ELSE [exists |-> TRUE, pending_changes |-> FALSE, pending_reason |-> None]

\* ------------------------------------------------------------ one scan
\* One invocation of an entry point. pc is where it is: idle (not yet
\* requested), waiting (queued on the lock), select / probe / apply (the
\* next thing its thread does), threadDone (the thread has ended, the task
\* has not resumed yet), done. limit, targets and results are the locals of
\* _run_scan_sync; ret and outcome are what the thread returned or that it
\* raised. opened, calls, opens and closes record what was done to the
\* checker: whether the factory returned, every call of check with what it
\* did, and the number of factory and close calls. timeout_s is the argument
\* the entry point was called with (<<>> for None) and sample_size the
\* sample_size argument of a sampled scan, changed the count _apply_results
\* returned to _run_scan_sync, closeRaised whether checker.close() raised,
\* cancelled whether the task awaiting the thread was cancelled; loaded
\* and state are the rows the session of _apply_results has loaded.
IdleScan ==
    [pc |-> "idle", limit |-> <<>>, targets |-> <<>>, results |-> <<>>,
     calls |-> <<>>, opened |-> "no", opens |-> 0, closes |-> 0,
     ret |-> 0, outcome |-> "none", timeout_s |-> <<>>, changed |-> 0,
     sample_size |-> <<>>, closeRaised |-> FALSE, cancelled |-> FALSE,
     loaded |-> <<>>, state |-> NoBuildState]

\* a finished invocation: nothing of it is left but that it has ended
DoneScan == [IdleScan EXCEPT !.pc = "done"]

\* ------------------------------------------------- the scan-all endpoint
Roles == {"Admin", "Publisher", "TeamMember"}

\* the timeout_s query parameter: absent (<<>>) or an integer
TimeoutArgs == {<<>>, <<1>>}

\* the response body {"queued": ..., "changed": ...}; changed is <<>> when
\* the key is absent
Body(queued, changed) == [queued |-> queued, changed |-> changed]

\* One request to POST /admin/dht/scan-all, for the full scan of the same
\* index: state is none (not yet made), pending (the handler awaits its
\* scan) or responded; role, wait and timeout_s are the caller's role and
\* the query parameters; status and body are the response (0: none yet);
\* task follows the task made by asyncio.create_task: none, created,
\* started, ended.
NoRequest ==
    [state |-> "none", role |-> None, wait |-> FALSE, timeout_s |-> <<>>,
     status |-> 0, body |-> <<>>, task |-> "none"]

\* ------------------------------------------- the libtorrent checker
Max(a, b) == IF a > b THEN a ELSE b

ProbeAccum(max_peers, got_metadata) ==
    [max_peers |-> max_peers, got_metadata |-> got_metadata]

MagnetProbe(status, num_peers, has_metadata) ==
    [status |-> status, num_peers |-> num_peers, has_metadata |-> has_metadata]

\* no probe was returned
NoProbe == MagnetProbe(None, 0, FALSE)

\* One LibtorrentMagnetChecker after __init__. pc is idle (no check in
\* progress), poll (in the while loop), finally (leaving the try block) or
\* closed; torrents are the handles attached to the session, handle the
\* handle of the check in progress (0: none), timeout_s, elapsed and acc the
\* locals of check, exc whether an exception is on its way out of the try
\* block. outcome and probe are how the last check ended. checks counts the
\* calls of check, observed lists what each completed poll of the current
\* check saw, removed the handles passed to remove_torrent, and paused
\* whether session.pause() has been done.
NewChecker ==
    [pc |-> "idle", torrents |-> {}, handle |-> 0, timeout_s |-> 0,
     elapsed |-> 0, acc |-> ProbeAccum(0, FALSE), exc |-> FALSE,
     outcome |-> "none", probe |-> NoProbe, checks |-> 0,
     observed |-> <<>>, removed |-> <<>>, paused |-> FALSE]

\* One run of run_build_pipeline: pc is idle (no run in progress), export
\* (the build state was loaded and a build is due) or deploy (the content
\* was exported; Hugo, the backup and the deployment follow). loaded is the
\* build_state row as the run's session loaded it, exported the dht_status
\* export_content wrote for each public resource (None: not exported), and
\* outcome how the last run ended.
NoBuild ==
    [pc |-> "idle", loaded |-> NoBuildState,
     exported |-> [r \in RIDs |-> None], outcome |-> "none"]

Init ==
    /\ \E ex \in SUBSET RIDs :
         resources = [r \in RIDs |->
                        IF r \in ex THEN Resource("Unknown") ELSE NoResource]
    /\ buildState \in {NoBuildState, ensure_build_state(NoBuildState)}
    /\ SCAN_ALL_LOCK = [locked |-> FALSE, waiters |-> <<>>]
    /\ scan = [s \in Scans |-> IdleScan]
    /\ http = [s \in FullScans |-> NoRequest]
    /\ checker = NewChecker
    /\ pipeline = NoBuild

\* ------------------------------------------------------ Sample Selector
Eligible(res) == {r \in RIDs : res[r].exists /\ ~res[r].takedown_at}

\* the tuple returned for a row: its id and the magnet_uri to probe
Row(r, res) == [id |-> r, magnet_uri |-> res[r].magnet_uri]

\* mutant of PickResources: the query does not filter on takedown_at
PickResourcesNoFilter(limit, res) ==
    LET all == {r \in RIDs : res[r].exists}
    IN IF limit = <<>>
       THEN {[i \in DOMAIN Ascending(all) |-> Row(Ascending(all)[i], res)]}
       ELSE {[i \in DOMAIN q |-> Row(q[i], res)] :
                q \in Arrangements(all, Min(limit[1], Cardinality(all)))}

\* every row list _pick_resources(limit) can return; limit is <<>> for None
\* and <<n>> for the integer n
PickResources(limit, res) ==
    IF limit = <<>>
    THEN {[i \in DOMAIN Ascending(Eligible(res)) |->
             Row(Ascending(Eligible(res))[i], res)]}
    ELSE {[i \in DOMAIN q |-> Row(q[i], res)] :
             q \in Arrangements(Eligible(res),
                                Min(limit[1], Cardinality(Eligible(res))))}

\* ------------------------------------------------------- Result Applier
\* mutant of ApplyLoop: the timestamp is written only when the status changes
RECURSIVE ApplyLoopStampsOnChange(_, _, _, _, _)
ApplyLoopStampsOnChange(results, i, res, changed, now) ==
    IF i > Len(results) THEN [resources |-> res, changed |-> changed]
    ELSE LET resource_id == results[i].id
             new_status == results[i].status
         IN IF ~res[resource_id].exists \/ res[resource_id].dht_status = new_status
            THEN ApplyLoopStampsOnChange(results, i + 1, res, changed, now)
            ELSE ApplyLoopStampsOnChange(results, i + 1,
                   [res EXCEPT ![resource_id].dht_status = new_status,
                               ![resource_id].last_dht_check = now,
                               ![resource_id].updated_at = now],
                   changed + 1, now)

\* the loop of _apply_results over results[i..], carrying the session's
\* view of the resources and the running count; the row is flushed with an
\* UPDATE, before which update_timestamp sets its updated_at
RECURSIVE ApplyLoop(_, _, _, _, _)
ApplyLoop(results, i, res, changed, now) ==
    IF i > Len(results) THEN [resources |-> res, changed |-> changed]
    ELSE LET resource_id == results[i].id
             new_status == results[i].status
         IN IF ~res[resource_id].exists
            THEN ApplyLoop(results, i + 1, res, changed, now)
            ELSE LET prev == res[resource_id].dht_status
                     res2 == [res EXCEPT ![resource_id].dht_status = new_status,
                                         ![resource_id].last_dht_check = now,
                                         ![resource_id].updated_at = now]
                 IN ApplyLoop(results, i + 1, res2,
                              IF prev # new_status THEN changed + 1 ELSE changed,
                              now)

\* the status changes and the build-state update of one committed apply
ApplyOutcome(loop, st) ==
    [resources |-> loop.resources,
     buildState |-> IF loop.changed # 0
                    THEN [st EXCEPT !.pending_changes = TRUE,
                                    !.pending_reason = "DHT status updated"]
                    ELSE st,
     changed |-> loop.changed]

\* mutant of ApplyResults: every apply marks the build state pending
ApplyResultsAlwaysPending(results, res, state, now) ==
    LET a == ApplyOutcome(ApplyLoop(results, 1, res, 0, now),
                          ensure_build_state(state))
    IN [a EXCEPT !.buildState.pending_changes = TRUE,
                 !.buildState.pending_reason = "DHT status updated"]

\* _apply_results when its transaction commits
ApplyResults(results, res, state, now) ==
    LET st == ensure_build_state(state)
        loop == ApplyLoop(results, 1, res, 0, now)
    IN ApplyOutcome(loop, st)

\* _apply_results when the transaction fails: session_scope rolls back, but
\* ensure_build_state has already committed a row it had to create
ApplyResultsFailed(res, state) ==
    [resources |-> res, buildState |-> ensure_build_state(state)]

\* -------------------------------------------------------- entry points
\* mutant of StartSampled: the sampled scan also goes through the lock
StartSampledGated(s) ==
    /\ s \in SampledScans
    /\ scan[s].pc = "idle"
    /\ \E sample_size \in SampleSizeArgs :
         LET lim == SampleLimit(sample_size)
         IN IF ~SCAN_ALL_LOCK.locked /\ SCAN_ALL_LOCK.waiters = <<>>
            THEN /\ SCAN_ALL_LOCK' = [SCAN_ALL_LOCK EXCEPT !.locked = TRUE]
                 /\ scan' = [scan EXCEPT ![s].pc = "select", ![s].limit = lim,
                                         ![s].sample_size = sample_size]
            ELSE /\ SCAN_ALL_LOCK' = [SCAN_ALL_LOCK EXCEPT
                                        !.waiters = Append(@, s)]
                 /\ scan' = [scan EXCEPT ![s].pc = "waiting", ![s].limit = lim,
                                         ![s].sample_size = sample_size]
    /\ UNCHANGED <<resources, buildState, http, checker, pipeline>>

\* run_dht_health_scan: to_thread(_run_scan_sync, limit=sample_size or default)
StartSampled(s) ==
    /\ s \in SampledScans
    /\ scan[s].pc = "idle"
    /\ \E sample_size \in SampleSizeArgs :
         scan' = [scan EXCEPT ![s].pc = "select",
                              ![s].sample_size = sample_size,
                              ![s].limit = SampleLimit(sample_size)]
    /\ UNCHANGED <<resources, buildState, SCAN_ALL_LOCK, http, checker, pipeline>>

\* mutant of LockFree: the fast path forgets to look at the locked flag
LockFreeIgnoresLocked(l) == l.waiters = <<>>

\* asyncio.Lock.acquire without waiting: the lock is free and nobody queues
LockFree(l) == ~l.locked /\ l.waiters = <<>>

\* run_dht_health_scan_all up to its first suspension: either the lock is
\* taken at once and _run_scan_sync is handed to a thread, or the task
\* queues on the lock
EnterFull(s, timeout_s) ==
    IF LockFree(SCAN_ALL_LOCK)
    THEN /\ SCAN_ALL_LOCK' = [SCAN_ALL_LOCK EXCEPT !.locked = TRUE]
         /\ scan' = [scan EXCEPT ![s].pc = "select",
                                 ![s].timeout_s = timeout_s]
    ELSE /\ SCAN_ALL_LOCK' = [SCAN_ALL_LOCK EXCEPT
                                !.waiters = Append(@, s)]
         /\ scan' = [scan EXCEPT ![s].pc = "waiting",
                                 ![s].timeout_s = timeout_s]

\* a direct call of run_dht_health_scan_all() by a caller other than the
\* endpoint
StartFull(s) ==
    /\ s \in FullScans
    /\ scan[s].pc = "idle"
    /\ http[s].state = "none"
    /\ EnterFull(s, <<>>)
    /\ UNCHANGED <<resources, buildState, http, checker, pipeline>>

\* the first waiter, woken by release, takes the lock and starts its thread
AcquireAfterWait(s) ==
    /\ scan[s].pc = "waiting"
    /\ ~SCAN_ALL_LOCK.locked
    /\ SCAN_ALL_LOCK.waiters # <<>>
    /\ Head(SCAN_ALL_LOCK.waiters) = s
    /\ SCAN_ALL_LOCK' = [locked |-> TRUE, waiters |-> Tail(SCAN_ALL_LOCK.waiters)]
    /\ scan' = [scan EXCEPT ![s].pc = "select"]
    /\ UNCHANGED <<resources, buildState, http, checker, pipeline>>

\* ------------------------------------------------------ _run_scan_sync
\* mutant of Select: no early return when nothing was selected
SelectWithoutEarlyReturn(s) ==
    /\ scan[s].pc = "select"
    /\ \E rows \in PickResources(scan[s].limit, resources) :
         scan' = [scan EXCEPT ![s].targets = rows, ![s].pc = "probe",
                              ![s].limit = <<>>, ![s].sample_size = <<>>]
    /\ UNCHANGED <<resources, buildState, SCAN_ALL_LOCK, http, checker, pipeline>>

\* resources = _pick_resources(limit); if not resources: return 0
\* (limit and sample_size are not read again after the call)
Select(s) ==
    /\ scan[s].pc = "select"
    /\ \E rows \in PickResources(scan[s].limit, resources) :
         scan' = [scan EXCEPT
                    ![s].targets = rows,
                    ![s].pc = IF rows = <<>> THEN "threadDone" ELSE "probe",
                    ![s].limit = <<>>,
                    ![s].sample_size = <<>>,
                    ![s].ret = 0,
                    ![s].outcome = IF rows = <<>> THEN "returned" ELSE "none"]
    /\ UNCHANGED <<resources, buildState, SCAN_ALL_LOCK, http, checker, pipeline>>

\* the except branch of checker_factory(): every target degrades to Unknown
AllUnknown(targets) ==
    [i \in DOMAIN targets |-> [id |-> targets[i].id, status |-> "Unknown"]]

\* the status appended for one target, given what checker.check did
ResultOf(out) == IF out = Raise THEN "Unknown" ELSE out

\* mutant of CheckLoop: the first exception ends the loop
RECURSIVE CheckLoopAbortsOnRaise(_, _, _, _)
CheckLoopAbortsOnRaise(targets, outs, i, b) ==
    IF i > Len(targets) THEN b
    ELSE LET c == [id |-> targets[i].id, out |-> outs[i]]
         IN IF outs[i] = "raise"
            THEN [results |-> b.results, calls |-> Append(b.calls, c)]
            ELSE CheckLoopAbortsOnRaise(targets, outs, i + 1,
                   [results |-> Append(b.results, [id |-> targets[i].id,
                                                   status |-> outs[i]]),
                    calls |-> Append(b.calls, c)])

\* mutant of CheckLoop: a check that raised is tried a second time
RECURSIVE CheckLoopRetries(_, _, _, _)
CheckLoopRetries(targets, outs, i, b) ==
    IF i > Len(targets) THEN b
    ELSE LET c == [id |-> targets[i].id, out |-> outs[i]]
             r == [id |-> targets[i].id,
                   status |-> IF outs[i] = "raise" THEN "Unknown" ELSE outs[i]]
         IN CheckLoopRetries(targets, outs, i + 1,
              [results |-> Append(b.results, r),
               calls |-> IF outs[i] = "raise"
                         THEN Append(Append(b.calls, c), c)
                         ELSE Append(b.calls, c)])

\* the for loop over the targets from index i on: outs[i] is what
\* checker.check does on its call for target i; b carries the results list
\* and the log of the calls made
RECURSIVE CheckLoop(_, _, _, _)
CheckLoop(targets, outs, i, b) ==
    IF i > Len(targets) THEN b
    ELSE CheckLoop(targets, outs, i + 1,
           [results |-> Append(b.results, [id |-> targets[i].id,
                                           status |-> ResultOf(outs[i])]),
            calls |-> Append(b.calls, [id |-> targets[i].id, out |-> outs[i]])])

\* mutant of RunBatch: a failed factory call leaves the batch without results
RunBatchDropsFailedBatch(targets, ok, outs) ==
    IF ~ok
    THEN [opened |-> "failed", results |-> <<>>, calls |-> <<>>,
          opens |-> 1, closes |-> 0]
    ELSE LET b == CheckLoop(targets, outs, 1, [results |-> <<>>, calls |-> <<>>])
         IN [opened |-> "ok", results |-> b.results, calls |-> b.calls,
             opens |-> 1, closes |-> 1]

\* lines 90-111 of _run_scan_sync: open the checker, check every target,
\* close the checker
RunBatch(targets, ok, outs) ==
    IF ~ok
    THEN [opened |-> "failed", results |-> AllUnknown(targets), calls |-> <<>>,
          opens |-> 1, closes |-> 0]
    ELSE LET b == CheckLoop(targets, outs, 1, [results |-> <<>>, calls |-> <<>>])
         IN [opened |-> "ok", results |-> b.results, calls |-> b.calls,
             opens |-> 1, closes |-> 1]

\* mutant of Probe: an exception of checker.close() leaves _run_scan_sync
ProbeCloseFailurePropagates(s) ==
    /\ scan[s].pc = "probe"
    /\ \E ok \in BOOLEAN, closeRaises \in BOOLEAN,
          outs \in [1..Len(scan[s].targets) -> CheckOutcomes] :
         LET b == RunBatch(scan[s].targets, ok, outs)
         IN scan' = [scan EXCEPT
                       ![s].opened = b.opened,
                       ![s].results = b.results,
                       ![s].calls = b.calls,
                       ![s].opens = @ + b.opens,
                       ![s].closes = @ + b.closes,
                       ![s].closeRaised = ok /\ closeRaises,
                       ![s].pc = IF ok /\ closeRaises THEN "threadDone"
                                 ELSE "apply",
                       ![s].outcome = IF ok /\ closeRaises THEN "raised"
                                      ELSE "none"]
    /\ UNCHANGED <<resources, buildState, SCAN_ALL_LOCK, http, checker, pipeline>>

\* the probing phase of one batch: no store access from the factory call to
\* the close; ok is whether checker_factory() returned, closeRaises whether
\* checker.close() raised (swallowed)
Probe(s) ==
    /\ scan[s].pc = "probe"
    /\ \E ok \in BOOLEAN, closeRaises \in BOOLEAN,
          outs \in [1..Len(scan[s].targets) -> CheckOutcomes] :
         LET b == RunBatch(scan[s].targets, ok, outs)
         IN scan' = [scan EXCEPT
                       ![s].opened = b.opened,
                       ![s].results = b.results,
                       ![s].calls = b.calls,
                       ![s].opens = @ + b.opens,
                       ![s].closes = @ + b.closes,
                       ![s].closeRaised = ok /\ closeRaises,
                       ![s].pc = "apply"]
    /\ UNCHANGED <<resources, buildState, SCAN_ALL_LOCK, http, checker, pipeline>>

\* The probing phase step by step, for the properties of the checker
\* session that one atomic step cannot show. pc is "checking" while the
\* session returned by checker_factory() is open.
\* checker = checker_factory(), or the except branch
OpenChecker(s) ==
    /\ scan[s].pc = "probe"
    /\ \E ok \in BOOLEAN :
         scan' = [scan EXCEPT
                    ![s].opened = IF ok THEN "ok" ELSE "failed",
                    ![s].opens = @ + 1,
                    ![s].results = IF ok THEN <<>> ELSE AllUnknown(scan[s].targets),
                    ![s].pc = IF ok THEN "checking" ELSE "apply"]
    /\ UNCHANGED <<resources, buildState, SCAN_ALL_LOCK, http, checker, pipeline>>

\* mutant of CheckNext: every check is made on a session of its own
CheckNextReopens(s) ==
    /\ scan[s].pc = "checking"
    /\ Len(scan[s].results) < Len(scan[s].targets)
    /\ \E out \in CheckOutcomes :
         LET i == Len(scan[s].results) + 1
         IN scan' = [scan EXCEPT
                       ![s].opens = @ + 1,
                       ![s].results = Append(@, [id |-> scan[s].targets[i].id,
                                                 status |-> ResultOf(out)]),
                       ![s].calls = Append(@, [id |-> scan[s].targets[i].id,
                                               out |-> out])]
    /\ UNCHANGED <<resources, buildState, SCAN_ALL_LOCK, http, checker, pipeline>>

\* one iteration of the for loop: checker.check for the next target, on the
\* session opened by OpenChecker
CheckNext(s) ==
    /\ scan[s].pc = "checking"
    /\ Len(scan[s].results) < Len(scan[s].targets)
    /\ \E out \in CheckOutcomes :
         LET i == Len(scan[s].results) + 1
         IN scan' = [scan EXCEPT
                       ![s].results = Append(@, [id |-> scan[s].targets[i].id,
                                                 status |-> ResultOf(out)]),
                       ![s].calls = Append(@, [id |-> scan[s].targets[i].id,
                                               out |-> out])]
    /\ UNCHANGED <<resources, buildState, SCAN_ALL_LOCK, http, checker, pipeline>>

\* the finally block after the last target: checker.close(), its exception
\* swallowed
CloseChecker(s) ==
    /\ scan[s].pc = "checking"
    /\ Len(scan[s].results) = Len(scan[s].targets)
    /\ \E closeRaises \in BOOLEAN :
         scan' = [scan EXCEPT
                    ![s].closes = @ + 1,
                    ![s].closeRaised = closeRaises,
                    ![s].pc = "apply"]
    /\ UNCHANGED <<resources, buildState, SCAN_ALL_LOCK, http, checker, pipeline>>

\* what _run_scan_sync returns after a committed apply
ScanReturn(opened, changed) == IF opened = "failed" THEN 0 ELSE changed

\* the value of datetime.now() read by the apply of scan s (0 is null)
ApplyTime(s) == s

\* the time of a request that changes a resource
RequestTime == NumFull + NumSampled + 2

\* the locals of _run_scan_sync are gone once it has returned or raised
ThreadExit(sc, outcome, ret) ==
    [sc EXCEPT !.pc = "threadDone", !.outcome = outcome, !.ret = ret,
               !.limit = <<>>, !.targets = <<>>, !.results = <<>>,
               !.calls = <<>>, !.closeRaised = FALSE,
               !.loaded = <<>>, !.state = NoBuildState]

\* _apply_results(results) commits, and _run_scan_sync returns
ApplyCommit(s) ==
    /\ scan[s].pc = "apply"
    /\ LET a == ApplyResults(scan[s].results, resources, buildState, ApplyTime(s))
       IN /\ resources' = a.resources
          /\ buildState' = a.buildState
          /\ scan' = [scan EXCEPT
                        ![s] = [ThreadExit(@, "returned",
                                           ScanReturn(scan[s].opened, a.changed))
                                  EXCEPT !.changed = a.changed]]
    /\ UNCHANGED <<SCAN_ALL_LOCK, http, checker, pipeline>>

\* mutant of ApplyFail: a failed apply sends the batch back to its probing
ApplyFailRetries(s) ==
    /\ scan[s].pc = "apply"
    /\ LET a == ApplyResultsFailed(resources, buildState)
       IN /\ resources' = a.resources
          /\ buildState' = a.buildState
    /\ scan' = [scan EXCEPT ![s].pc = "probe", ![s].results = <<>>]
    /\ UNCHANGED <<SCAN_ALL_LOCK, http, checker, pipeline>>

\* _apply_results(results) raises: rollback, the exception leaves the thread
ApplyFail(s) ==
    /\ scan[s].pc = "apply"
    /\ LET a == ApplyResultsFailed(resources, buildState)
       IN /\ resources' = a.resources
          /\ buildState' = a.buildState
    /\ scan' = [scan EXCEPT ![s] = ThreadExit(@, "raised", 0)]
    /\ UNCHANGED <<SCAN_ALL_LOCK, http, checker, pipeline>>

\* _apply_results in two steps, for applies that run beside each other.
\* Its session reads each row when session.get is called and writes at
\* commit: the reads take no lock on the rows, and the UPDATE of a row
\* carries the columns whose assigned value differs from the value loaded.
\* the reads: ensure_build_state, and session.get for every result
ApplyLoad(s) ==
    /\ scan[s].pc = "apply"
    /\ buildState' = ensure_build_state(buildState)
    /\ scan' = [scan EXCEPT
                  ![s].pc = "flush",
                  ![s].state = ensure_build_state(buildState),
                  ![s].loaded = [i \in DOMAIN scan[s].results |->
                                   resources[scan[s].results[i].id]]]
    /\ UNCHANGED <<resources, SCAN_ALL_LOCK, http, checker, pipeline>>

\* the rows after the UPDATEs of results[i..] on the rows res: dht_status
\* is written where the result differs from the loaded status, the two
\* times on every loaded row
RECURSIVE FlushLoop(_, _, _, _, _)
FlushLoop(results, loaded, i, res, now) ==
    IF i > Len(results) THEN res
    ELSE LET resource_id == results[i].id
         IN IF ~loaded[i].exists
            THEN FlushLoop(results, loaded, i + 1, res, now)
            ELSE FlushLoop(results, loaded, i + 1,
                   [res EXCEPT
                      ![resource_id].dht_status =
                          IF results[i].status # loaded[i].dht_status
                          THEN results[i].status ELSE @,
                      ![resource_id].last_dht_check = now,
                      ![resource_id].updated_at = now],
                   now)

\* the count of results whose status differs from the loaded one
FlushChanged(results, loaded) ==
    Cardinality({i \in DOMAIN results :
                   loaded[i].exists /\ loaded[i].dht_status # results[i].status})

\* the commit: the UPDATEs of the rows and of the build state, and the
\* return of _run_scan_sync
ApplyFlush(s) ==
    /\ scan[s].pc = "flush"
    /\ LET changed == FlushChanged(scan[s].results, scan[s].loaded)
       IN /\ resources' = FlushLoop(scan[s].results, scan[s].loaded, 1,
                                    resources, ApplyTime(s))
          /\ buildState' =
               IF changed = 0 THEN buildState
               ELSE [buildState EXCEPT
                       !.pending_changes = IF ~scan[s].state.pending_changes
                                           THEN TRUE ELSE @,
                       !.pending_reason =
                           IF scan[s].state.pending_reason # "DHT status updated"
                           THEN "DHT status updated" ELSE @]
          /\ scan' = [scan EXCEPT
                        ![s] = [ThreadExit(@, "returned",
                                           ScanReturn(scan[s].opened, changed))
                                  EXCEPT !.changed = changed]]
    /\ UNCHANGED <<SCAN_ALL_LOCK, http, checker, pipeline>>

\* asyncio.Lock.release
Release(l) == [l EXCEPT !.locked = FALSE]

\* What the end of run_dht_health_scan_all means to the request h that
\* started it. A handler awaiting the scan (wait=true) returns
\* {"queued": False, "changed": changed}, or the exception leaves the handler
\* and the server answers 500; the task of a wait=false request ends, and
\* nobody awaits its result or its exception.
Resume(h, outcome, ret) ==
    IF h.state = "pending"
    THEN IF outcome = "returned"
         THEN [h EXCEPT !.state = "responded", !.status = 200,
                        !.body = Body(FALSE, <<ret>>)]
         ELSE [h EXCEPT !.state = "responded", !.status = 500]
    ELSE IF h.task = "started" THEN [h EXCEPT !.task = "ended"]
    ELSE h

\* mutant of Finish: the lock is released only when the thread returned
FinishLeaksOnRaise(s) ==
    /\ scan[s].pc = "threadDone"
    /\ scan' = [scan EXCEPT ![s] = DoneScan]
    /\ SCAN_ALL_LOCK' = IF s \in FullScans /\ scan[s].outcome = "returned"
                        THEN [SCAN_ALL_LOCK EXCEPT !.locked = FALSE]
                        ELSE SCAN_ALL_LOCK
    /\ http' = IF s \in FullScans
               THEN [http EXCEPT ![s] = Resume(@, scan[s].outcome, scan[s].ret)]
               ELSE http
    /\ UNCHANGED <<resources, buildState, checker, pipeline>>

\* the awaiting task resumes with the thread's result or exception; a full
\* scan leaves its async with block, which releases the lock either way. The
\* thread of a cancelled task just ends: its task has left the block before.
Finish(s) ==
    /\ scan[s].pc = "threadDone"
    /\ scan' = [scan EXCEPT ![s] = DoneScan]
    /\ SCAN_ALL_LOCK' = IF s \in FullScans /\ ~scan[s].cancelled
                        THEN Release(SCAN_ALL_LOCK)
                        ELSE SCAN_ALL_LOCK
    /\ http' = IF s \in FullScans /\ ~scan[s].cancelled
               THEN [http EXCEPT ![s] = Resume(@, scan[s].outcome, scan[s].ret)]
               ELSE http
    /\ UNCHANGED <<resources, buildState, checker, pipeline>>

\* The task awaiting asyncio.to_thread in run_dht_health_scan_all is
\* cancelled while its thread runs: CancelledError is raised at the await,
\* the async with block is left and releases the lock, and the thread, which
\* cannot be interrupted, goes on to its end.
Cancel(s) ==
    /\ s \in FullScans
    /\ scan[s].pc \in {"select", "probe", "apply"}
    /\ ~scan[s].cancelled
    /\ scan' = [scan EXCEPT ![s].cancelled = TRUE]
    /\ SCAN_ALL_LOCK' = Release(SCAN_ALL_LOCK)
    /\ UNCHANGED <<resources, buildState, http, checker, pipeline>>

\* ------------------------------------------------- scan_all_magnets
\* mutant of ScanAll: the handler calls the scan without its timeout_s
ScanAllDropsTimeout(s) ==
    /\ s \in FullScans
    /\ scan[s].pc = "idle"
    /\ http[s].state = "none"
    /\ \E role \in Roles, wait \in BOOLEAN, timeout_s \in TimeoutArgs :
         LET h == [http[s] EXCEPT !.role = role, !.wait = wait,
                                  !.timeout_s = timeout_s]
         IN IF role # "Admin"
            THEN /\ http' = [http EXCEPT ![s] = [h EXCEPT !.state = "responded",
                                                          !.status = 403]]
                 /\ UNCHANGED <<SCAN_ALL_LOCK, scan>>
            ELSE IF wait
            THEN /\ EnterFull(s, <<>>)
                 /\ http' = [http EXCEPT ![s] = [h EXCEPT !.state = "pending"]]
            ELSE /\ http' = [http EXCEPT ![s] = [h EXCEPT
                                                   !.state = "responded",
                                                   !.status = 200,
                                                   !.body = Body(TRUE, <<>>),
                                                   !.task = "created"]]
                 /\ UNCHANGED <<SCAN_ALL_LOCK, scan>>
    /\ UNCHANGED <<resources, buildState, checker, pipeline>>

\* POST /admin/dht/scan-all up to its first suspension. require_roles
\* answers 403 to any role but Admin. With wait the handler calls
\* run_dht_health_scan_all(timeout_s=timeout_s) and awaits it; without, it
\* makes a task of the same call and returns {"queued": True} at once.
ScanAll(s) ==
    /\ s \in FullScans
    /\ scan[s].pc = "idle"
    /\ http[s].state = "none"
    /\ \E role \in Roles, wait \in BOOLEAN, timeout_s \in TimeoutArgs :
         LET h == [http[s] EXCEPT !.role = role, !.wait = wait,
                                  !.timeout_s = timeout_s]
         IN IF role # "Admin"
            THEN /\ http' = [http EXCEPT ![s] = [h EXCEPT !.state = "responded",
                                                          !.status = 403]]
                 /\ UNCHANGED <<SCAN_ALL_LOCK, scan>>
            ELSE IF wait
            THEN /\ EnterFull(s, timeout_s)
                 /\ http' = [http EXCEPT ![s] = [h EXCEPT !.state = "pending"]]
            ELSE /\ http' = [http EXCEPT ![s] = [h EXCEPT
                                                   !.state = "responded",
                                                   !.status = 200,
                                                   !.body = Body(TRUE, <<>>),
                                                   !.task = "created"]]
                 /\ UNCHANGED <<SCAN_ALL_LOCK, scan>>
    /\ UNCHANGED <<resources, buildState, checker, pipeline>>

\* the event loop runs the task made by asyncio.create_task up to its first
\* suspension
TaskStart(s) ==
    /\ s \in FullScans
    /\ http[s].task = "created"
    /\ scan[s].pc = "idle"
    /\ EnterFull(s, http[s].timeout_s)
    /\ http' = [http EXCEPT ![s].task = "started"]
    /\ UNCHANGED <<resources, buildState, checker, pipeline>>

\* --------------------------------------------------------- environment
\* takedown_resource: takedown_at = now, _mark_pending("Resource takedown")
Takedown(r) ==
    /\ resources[r].exists
    /\ ~resources[r].takedown_at
    /\ resources' = [resources EXCEPT ![r].takedown_at = TRUE,
                                      ![r].updated_at = RequestTime]
    /\ buildState' = [ensure_build_state(buildState) EXCEPT
                        !.pending_changes = TRUE,
                        !.pending_reason = "Resource takedown"]
    /\ UNCHANGED <<SCAN_ALL_LOCK, scan, http, checker, pipeline>>

\* ------------------------------------- LibtorrentMagnetChecker.check
\* PUT /resources/{id} with a magnet_uri the resource has not had: the
\* magnet and its hash are replaced and the build is marked pending;
\* dht_status and last_dht_check are not among the fields it writes
UpdateResource(r) ==
    /\ resources[r].exists
    /\ resources[r].magnet_uri < MaxMagnet
    /\ resources' = [resources EXCEPT ![r].magnet_uri = @ + 1,
                                      ![r].updated_at = RequestTime]
    /\ buildState' = [ensure_build_state(buildState) EXCEPT
                        !.pending_changes = TRUE,
                        !.pending_reason = "Resource updated"]
    /\ UNCHANGED <<SCAN_ALL_LOCK, scan, http, checker, pipeline>>

\* ------------------------------------------------- the build pipeline
\* run_build_pipeline(force) up to _should_build: the session loads the
\* build_state row (creating and committing it if absent) and the run ends
\* here unless changes are pending or the build is forced
PipelineStart ==
    /\ pipeline.pc = "idle"
    /\ \E force \in BOOLEAN :
         LET state == ensure_build_state(buildState)
         IN /\ buildState' = state
            /\ pipeline' = IF ~force /\ ~state.pending_changes
                           THEN pipeline
                           ELSE [NoBuild EXCEPT !.pc = "export", !.loaded = state]
    /\ UNCHANGED <<resources, SCAN_ALL_LOCK, scan, http, checker>>

\* the resources export_content reads: those not taken down
Public(res) == {r \in RIDs : res[r].exists /\ ~res[r].takedown_at}

\* export_content(session, repo): the public resources are read and written
\* out with the dht_status they have now
PipelineExport ==
    /\ pipeline.pc = "export"
    /\ pipeline' = [pipeline EXCEPT
                      !.pc = "deploy",
                      !.exported = [r \in RIDs |->
                                      IF r \in Public(resources)
                                      THEN resources[r].dht_status ELSE None]]
    /\ UNCHANGED <<resources, buildState, SCAN_ALL_LOCK, scan, http, checker>>

\* The else branch: the run's session assigns pending_changes = False and
\* pending_reason = None to the row it loaded at the start and commits. The
\* UPDATE carries the columns whose assigned value differs from the loaded
\* one, so a flag loaded as True is written False whatever the row holds now.
PipelineEnd ==
    /\ pipeline.pc = "deploy"
    /\ buildState' =
         [buildState EXCEPT
            !.pending_changes = IF pipeline.loaded.pending_changes
                                THEN FALSE ELSE @,
            !.pending_reason = IF pipeline.loaded.pending_reason # None
                               THEN None ELSE @]
    /\ pipeline' = [pipeline EXCEPT !.pc = "idle", !.outcome = "built"]
    /\ UNCHANGED <<resources, SCAN_ALL_LOCK, scan, http, checker>>

\* The except branch: a step of the build raised; last_error is recorded
\* and the pending flag is left alone
PipelineFail ==
    /\ pipeline.pc \in {"export", "deploy"}
    /\ pipeline' = [pipeline EXCEPT !.pc = "idle", !.outcome = "failed"]
    /\ UNCHANGED <<resources, buildState, SCAN_ALL_LOCK, scan, http, checker>>

Others == <<resources, buildState, SCAN_ALL_LOCK, scan, http, pipeline>>

\* check(magnet_uri, timeout_s) up to the while loop: lt.add_magnet_uri
\* raises (outside the try block: the exception leaves check, nothing was
\* attached) or attaches a new handle to the session
AddMagnet(ch, timeout_s, addRaises) ==
    LET c == [ch EXCEPT !.checks = @ + 1, !.observed = <<>>,
                        !.probe = NoProbe, !.timeout_s = timeout_s]
    IN IF addRaises
       THEN [c EXCEPT !.outcome = "raised"]
       ELSE [c EXCEPT !.pc = "poll", !.outcome = "none",
                      !.handle = c.checks,
                      !.torrents = @ \cup {c.checks},
                      !.elapsed = 0, !.exc = FALSE,
                      !.acc = ProbeAccum(0, FALSE)]

\* a call of check on the checker, by whoever holds it
CheckStart ==
    /\ checker.pc = "idle"
    /\ checker.checks < MaxChecks
    /\ \E timeout_s \in 0..MaxTimeout, addRaises \in BOOLEAN :
         checker' = AddMagnet(checker, timeout_s, addRaises)
    /\ UNCHANGED Others

\* mutant of PollAccum: the accumulator keeps the latest peer count
PollAccumKeepsLatest(acc, num_peers, has_metadata) ==
    ProbeAccum(num_peers, acc.got_metadata \/ has_metadata)

\* lines 67-71: the accumulator after a poll that saw num_peers peers and
\* has_metadata
PollAccum(acc, num_peers, has_metadata) ==
    ProbeAccum(Max(acc.max_peers, num_peers), acc.got_metadata \/ has_metadata)

\* mutant of Poll: the loop does not break when metadata has arrived
PollIgnoresMetadata ==
    /\ checker.pc = "poll"
    /\ checker.elapsed < checker.timeout_s
    /\ \E pollRaises \in BOOLEAN, num_peers \in 0..MaxPeers,
          has_metadata \in BOOLEAN,
          dt \in 1..(checker.timeout_s - checker.elapsed) :
         checker' =
           IF pollRaises
           THEN [checker EXCEPT !.pc = "finally", !.exc = TRUE]
           ELSE [checker EXCEPT
                   !.acc = PollAccum(checker.acc, num_peers, has_metadata),
                   !.observed = Append(@, [num_peers |-> num_peers,
                                           has_metadata |-> has_metadata]),
                   !.elapsed = @ + dt]
    /\ UNCHANGED Others

\* one iteration of the while loop. handle.status() or handle.has_metadata()
\* may raise, which leaves the try block with the accumulator as it was;
\* otherwise the poll is accumulated and the loop breaks on metadata or
\* sleeps: dt >= 1 is the time the iteration took
Poll ==
    /\ checker.pc = "poll"
    /\ checker.elapsed < checker.timeout_s
    /\ \E pollRaises \in BOOLEAN, num_peers \in 0..MaxPeers,
          has_metadata \in BOOLEAN,
          dt \in 1..(checker.timeout_s - checker.elapsed) :
         checker' =
           IF pollRaises
           THEN [checker EXCEPT !.pc = "finally", !.exc = TRUE]
           ELSE LET acc == PollAccum(checker.acc, num_peers, has_metadata)
                    c == [checker EXCEPT
                            !.acc = acc,
                            !.observed = Append(@, [num_peers |-> num_peers,
                                                    has_metadata |-> has_metadata])]
                IN IF acc.got_metadata
                   THEN [c EXCEPT !.pc = "finally"]
                   ELSE [c EXCEPT !.elapsed = @ + dt]
    /\ UNCHANGED Others

\* the while condition is false: the timeout has passed
LoopEnd ==
    /\ checker.pc = "poll"
    /\ checker.elapsed >= checker.timeout_s
    /\ checker' = [checker EXCEPT !.pc = "finally"]
    /\ UNCHANGED Others

\* lines 81-85: the probe returned for an accumulator
Verdict(acc) ==
    IF acc.got_metadata \/ acc.max_peers > 0
    THEN MagnetProbe("Active", acc.max_peers, acc.got_metadata)
    ELSE MagnetProbe("Stale", 0, FALSE)

\* mutant of CheckEnd: the handle is removed only when the loop ended normally
CheckEndLeaksOnException ==
    /\ checker.pc = "finally"
    /\ LET c == IF checker.exc
                THEN [checker EXCEPT !.pc = "idle", !.handle = 0]
                ELSE [checker EXCEPT
                        !.pc = "idle", !.handle = 0,
                        !.torrents = @ \ {checker.handle},
                        !.removed = Append(@, checker.handle)]
       IN checker' =
            IF checker.exc
            THEN [c EXCEPT !.outcome = "raised", !.exc = FALSE]
            ELSE [c EXCEPT !.outcome = "returned", !.probe = Verdict(checker.acc)]
    /\ UNCHANGED Others

\* the finally block and the end of check: session.remove_torrent(handle)
\* detaches the handle (it raises only for a handle that is not in the
\* session; swallowed); then the exception of the try block goes on to the
\* caller, or the probe is returned
CheckEnd ==
    /\ checker.pc = "finally"
    /\ LET c == [checker EXCEPT
                   !.pc = "idle", !.handle = 0,
                   !.torrents = @ \ {checker.handle},
                   !.removed = Append(@, checker.handle)]
       IN checker' =
            IF checker.exc
            THEN [c EXCEPT !.outcome = "raised", !.exc = FALSE]
            ELSE [c EXCEPT !.outcome = "returned", !.probe = Verdict(checker.acc)]
    /\ UNCHANGED Others

\* close(): session.pause(), whose failure is swallowed
CheckerClose ==
    /\ checker.pc = "idle"
    /\ \E pauseRaises \in BOOLEAN :
         checker' = [checker EXCEPT !.pc = "closed", !.paused = ~pauseRaises]
    /\ UNCHANGED Others

NextChecker ==
    \/ CheckStart
    \/ Poll
    \/ LoopEnd
    \/ CheckEnd
    \/ CheckerClose

\* ---------------------------------- one batch on a libtorrent checker
\* The probing phase of scan s with the checker made by the default factory:
\* the loop of _run_scan_sync calls check, the checker polls, and the
\* probe or the exception comes back to the loop.
\* probe = checker.check(magnet_uri, timeout_s=timeout_s) is called for the
\* next target; timeout_s is the caller's value or that of
\* GHOST_DHT_TIMEOUT_S
BatchCheck(s) ==
    /\ scan[s].pc = "checking"
    /\ Len(scan[s].results) < Len(scan[s].targets)
    /\ checker.pc = "idle"
    /\ checker.checks = Len(scan[s].results)
    /\ \E timeout_s \in 0..MaxTimeout, addRaises \in BOOLEAN :
         checker' = AddMagnet(checker, timeout_s, addRaises)
    /\ UNCHANGED Others

\* check has returned its probe or raised: the loop appends the status, or
\* Unknown in the except branch
BatchCollect(s) ==
    /\ scan[s].pc = "checking"
    /\ checker.pc = "idle"
    /\ checker.checks = Len(scan[s].results) + 1
    /\ LET i == checker.checks
           out == IF checker.outcome = "raised" THEN Raise
                  ELSE checker.probe.status
       IN scan' = [scan EXCEPT
                     ![s].results = Append(@, [id |-> scan[s].targets[i].id,
                                               status |-> ResultOf(out)]),
                     ![s].calls = Append(@, [id |-> scan[s].targets[i].id,
                                             out |-> out])]
    /\ UNCHANGED <<resources, buildState, SCAN_ALL_LOCK, http, checker, pipeline>>

\* the finally block of the loop: checker.close(), which swallows the
\* failure of session.pause() itself
BatchClose(s) ==
    /\ scan[s].pc = "checking"
    /\ Len(scan[s].results) = Len(scan[s].targets)
    /\ checker.pc = "idle"
    /\ \E pauseRaises \in BOOLEAN :
         checker' = [checker EXCEPT !.pc = "closed", !.paused = ~pauseRaises]
    /\ scan' = [scan EXCEPT ![s].closes = @ + 1, ![s].pc = "apply"]
    /\ UNCHANGED <<resources, buildState, SCAN_ALL_LOCK, http, pipeline>>

\* the scan whose batch is followed on the checker
BatchScan == 1

\* what the thread of scan s does next, and the polling of its checker
BatchStep(s) ==
    \/ Select(s)
    \/ OpenChecker(s)
    \/ BatchCheck(s)
    \/ Poll
    \/ LoopEnd
    \/ CheckEnd
    \/ BatchCollect(s)
    \/ BatchClose(s)
    \/ ApplyCommit(s)
    \/ ApplyFail(s)
    \/ Finish(s)

NextBatch == StartFull(BatchScan) \/ BatchStep(BatchScan)

\* one full scan from its request to its end, its thread running whenever
\* it can: every library call returns or raises, and time.sleep(1) returns
\* after a second or more
BatchSpec == Init /\ [][NextBatch]_vars /\ WF_vars(BatchStep(BatchScan))

\* a checker just constructed, beside an empty store and no scan
CheckerInit ==
    /\ Init
    /\ resources = [r \in RIDs |-> NoResource]
    /\ buildState = NoBuildState

\* one checker used by one batch, check after check
CheckerSpec == CheckerInit /\ [][NextChecker]_vars

Next ==
    \/ \E s \in Scans : StartSampled(s)
    \/ \E s \in Scans : StartFull(s)
    \/ \E s \in Scans : AcquireAfterWait(s)
    \/ \E s \in Scans : Select(s)
    \/ \E s \in Scans : Probe(s)
    \/ \E s \in Scans : ApplyCommit(s)
    \/ \E s \in Scans : ApplyFail(s)
    \/ \E s \in Scans : Finish(s)
    \/ \E r \in RIDs : Takedown(r)

Spec == Init /\ [][Next]_vars

\* the steps the event loop and the thread pool take on their own for an
\* invocation that has been requested
Progress(s) ==
    \/ AcquireAfterWait(s)
    \/ Select(s)
    \/ Probe(s)
    \/ ApplyCommit(s)
    \/ ApplyFail(s)
    \/ Finish(s)

\* the full-scan requests alone, with the takedowns that change what they
\* select
NextFull ==
    \/ \E s \in FullScans : StartFull(s)
    \/ \E s \in FullScans : AcquireAfterWait(s)
    \/ \E s \in FullScans : Select(s)
    \/ \E s \in FullScans : Probe(s)
    \/ \E s \in FullScans : ApplyCommit(s)
    \/ \E s \in FullScans : ApplyFail(s)
    \/ \E s \in FullScans : Finish(s)
    \/ \E r \in RIDs : Takedown(r)

\* the event loop runs every ready task and the thread pool every submitted
\* call (each check returns or raises within its timeout); requests and
\* takedowns are up to the users
FairSpec == Init /\ [][NextFull]_vars /\ \A s \in FullScans : WF_vars(Progress(s))

\* the full scans started through the scan-all endpoint
NextAdmin ==
    \/ \E s \in FullScans : ScanAll(s)
    \/ \E s \in FullScans : TaskStart(s)
    \/ \E s \in FullScans : AcquireAfterWait(s)
    \/ \E s \in FullScans : Select(s)
    \/ \E s \in FullScans : Probe(s)
    \/ \E s \in FullScans : ApplyCommit(s)
    \/ \E s \in FullScans : ApplyFail(s)
    \/ \E s \in FullScans : Finish(s)
    \/ \E r \in RIDs : Takedown(r)

\* the event loop runs every task that was made and every ready task, and
\* the thread pool every submitted call; requests are up to the users
AdminSpec ==
    /\ Init
    /\ [][NextAdmin]_vars
    /\ \A s \in FullScans : WF_vars(TaskStart(s) \/ Progress(s))

\* the scans with the probing phase taken step by step: the factory call,
\* each check and the close are steps of their own, so that the sessions of
\* different scans are open at the same time
NextSession ==
    \/ \E s \in Scans : StartSampled(s)
    \/ \E s \in Scans : StartFull(s)
    \/ \E s \in Scans : AcquireAfterWait(s)
    \/ \E s \in Scans : Select(s)
    \/ \E s \in Scans : OpenChecker(s)
    \/ \E s \in Scans : CheckNext(s)
    \/ \E s \in Scans : CloseChecker(s)
    \/ \E s \in Scans : ApplyCommit(s)
    \/ \E s \in Scans : ApplyFail(s)
    \/ \E s \in Scans : Finish(s)

SessionSpec == Init /\ [][NextSession]_vars

\* the full scans called by a program that may cancel the calls it awaits
NextCancel ==
    \/ \E s \in FullScans : StartFull(s)
    \/ \E s \in FullScans : AcquireAfterWait(s)
    \/ \E s \in FullScans : Select(s)
    \/ \E s \in FullScans : Probe(s)
    \/ \E s \in FullScans : ApplyCommit(s)
    \/ \E s \in FullScans : ApplyFail(s)
    \/ \E s \in FullScans : Finish(s)
    \/ \E s \in FullScans : Cancel(s)

CancelSpec == Init /\ [][NextCancel]_vars

\* the scans that run beside the requests and the builds: one full scan and
\* the sampled scans
UpdateScans == {1} \cup SampledScans

\* these scans with the reads and the commit of an apply as two steps
NextApply ==
    \/ \E s \in UpdateScans : StartSampled(s)
    \/ \E s \in UpdateScans : StartFull(s)
    \/ \E s \in UpdateScans : Select(s)
    \/ \E s \in UpdateScans : Probe(s)
    \/ \E s \in UpdateScans : ApplyLoad(s)
    \/ \E s \in UpdateScans : ApplyFlush(s)
    \/ \E s \in UpdateScans : ApplyFail(s)
    \/ \E s \in UpdateScans : Finish(s)

ApplySpec == Init /\ [][NextApply]_vars

\* these scans beside the runs of the build pipeline
NextBuild ==
    \/ \E s \in UpdateScans : StartSampled(s)
    \/ \E s \in UpdateScans : StartFull(s)
    \/ \E s \in UpdateScans : Select(s)
    \/ \E s \in UpdateScans : Probe(s)
    \/ \E s \in UpdateScans : ApplyCommit(s)
    \/ \E s \in UpdateScans : ApplyFail(s)
    \/ \E s \in UpdateScans : Finish(s)
    \/ PipelineStart
    \/ PipelineExport
    \/ PipelineEnd
    \/ PipelineFail

BuildSpec == Init /\ [][NextBuild]_vars

\* these scans beside the requests that give a resource another magnet
NextUpdate ==
    \/ \E s \in UpdateScans : StartSampled(s)
    \/ \E s \in UpdateScans : StartFull(s)
    \/ \E s \in UpdateScans : Select(s)
    \/ \E s \in UpdateScans : Probe(s)
    \/ \E s \in UpdateScans : ApplyCommit(s)
    \/ \E s \in UpdateScans : ApplyFail(s)
    \/ \E s \in UpdateScans : Finish(s)
    \/ \E r \in RIDs : UpdateResource(r)

UpdateSpec == Init /\ [][NextUpdate]_vars

TypeOK ==
    /\ \A r \in RIDs : resources[r].dht_status \in DhtStatus
    /\ \A s \in Scans : scan[s].pc \in {"idle", "waiting", "select",
                          "probe", "checking", "apply", "flush", "threadDone",
                          "done"}

\* ================================================================ claims
\* a scan whose thread has been started and whose task has not yet resumed
InThread(s) == scan[s].pc \in {"select", "probe", "apply", "threadDone"}

\* a scan in its selection, probing or apply phase
InPhase(s) == scan[s].pc \in {"select", "probe", "apply"}

\* C1: at every moment at most one full scan is in its selection, probing or
\* apply phase, and a full scan in one of these phases (or whose thread has
\* just ended) holds the lock
C1_OneFullScanAtATime ==
    /\ Cardinality({s \in FullScans : InThread(s)}) <= 1
    /\ \A s \in FullScans : InThread(s) => SCAN_ALL_LOCK.locked

\* C1 witness: one full scan applies while another full-scan request waits
C1_Witness ==
    \E s, t \in FullScans : scan[s].pc = "apply" /\ scan[t].pc = "waiting"

\* C2: a full-scan request that finds the lock taken waits instead of being
\* rejected, is started once the lock is released, and every full-scan
\* request eventually finishes, whether the scan before it returned or raised
C2_EveryFullScanFinishes ==
    /\ [][\A s \in FullScans :
            scan[s].pc = "idle" /\ scan'[s].pc # "idle"
              => scan'[s].pc \in {"select", "waiting"}]_vars
    /\ \A s \in FullScans :
         /\ (scan[s].pc = "waiting") ~> (scan[s].pc = "select")
         /\ (scan[s].pc # "idle") ~> (scan[s].pc = "done")

\* C2 witness: a full scan has raised and holds the lock while another waits
C2_Witness ==
    \E s, t \in FullScans :
       /\ scan[s].pc = "threadDone" /\ scan[s].outcome = "raised"
       /\ scan[t].pc = "waiting"

ApplyCommitted(s) ==
    /\ scan[s].pc = "apply"
    /\ scan'[s].pc = "threadDone"
    /\ scan'[s].outcome = "returned"

\* the step in which the thread of scan s returns
ThreadReturns(s) ==
    /\ InPhase(s)
    /\ scan'[s].pc = "threadDone"
    /\ scan'[s].outcome = "returned"

\* the resources whose stored dht_status the step changes
StatusChanges == {r \in RIDs : resources'[r].dht_status # resources[r].dht_status}

\* C4 (as claimed): the value a scan returns is the number of resources whose
\* stored dht_status its apply changed, whether or not the checker was opened
C4_ReturnIsChangedCount ==
    [][\A s \in Scans :
         ThreadReturns(s) => scan'[s].ret = Cardinality(StatusChanges)]_vars

\* at least one result of scan s differs from the stored status of its resource
SomeResultDiffers(s) ==
    \E i \in DOMAIN scan[s].results :
       /\ resources[scan[s].results[i].id].exists
       /\ resources[scan[s].results[i].id].dht_status # scan[s].results[i].status

LaterTime == NumFull + NumSampled + 1

C7_CheckerUnavailable ==
    /\ [](\A s \in Scans :
            scan[s].opened = "failed" /\ scan[s].pc = "apply" =>
              /\ scan[s].calls = <<>>
              /\ DOMAIN scan[s].results = DOMAIN scan[s].targets
              /\ \A i \in DOMAIN scan[s].targets :
                   scan[s].results[i] =
                     [id |-> scan[s].targets[i].id, status |-> "Unknown"])
    /\ [][\A s \in Scans :
            /\ scan[s].pc = "probe" /\ scan'[s].pc # "probe"
                 => scan'[s].pc = "apply" /\ scan'[s].outcome = "none"
            /\ ApplyCommitted(s) /\ scan[s].opened = "failed" =>
                 /\ \A i \in DOMAIN scan[s].targets :
                      resources'[scan[s].targets[i].id].dht_status = "Unknown"
                 /\ (\A i \in DOMAIN scan[s].targets :
                       resources[scan[s].targets[i].id].dht_status = "Unknown")
                      => buildState'.pending_changes = buildState.pending_changes
                         /\ buildState'.pending_reason = buildState.pending_reason]_vars

\* C7 witness: a scan whose factory failed has applied and returned, its
\* resources are Unknown and checked, and nothing is pending
C7_Witness ==
    \E s \in Scans :
       /\ scan[s].pc = "threadDone" /\ scan[s].outcome = "returned"
       /\ scan[s].opened = "failed"
       /\ ~buildState.pending_changes
       /\ \E r \in RIDs : /\ resources[r].last_dht_check = ApplyTime(s)
                          /\ resources[r].dht_status = "Unknown"

\* C8: a scan that selects while no resource is eligible returns 0 at once:
\* no factory call, no check, no close, and the resources and the build
\* state are the same after the step; nothing it does later writes either
C8_EmptyScanIsNoop ==
    /\ [](\A s \in Scans :
            scan[s].pc = "threadDone" /\ scan[s].opens = 0 =>
              /\ scan[s].outcome = "returned" /\ scan[s].ret = 0
              /\ scan[s].closes = 0 /\ scan[s].calls = <<>>)
    /\ [][\A s \in Scans :
            /\ scan[s].pc = "select" /\ scan'[s].pc # "select"
               /\ Eligible(resources) = {}
                 => /\ scan'[s].pc = "threadDone" /\ scan'[s].opens = 0
                    /\ UNCHANGED <<resources, buildState>>
            /\ scan[s].pc = "threadDone" /\ scan'[s].pc # "threadDone"
                 => /\ scan'[s].pc = "done"
                    /\ UNCHANGED <<resources, buildState>>]_vars

\* C8 witness: every resource of a non-empty catalog is taken down and a scan
\* has returned without opening a checker
C8_Witness ==
    /\ \E r \in RIDs : resources[r].exists
    /\ Eligible(resources) = {}
    /\ \E s \in Scans : scan[s].pc = "threadDone" /\ scan[s].opens = 0

\* a batch of scan s that was probed with an open checker and awaits its apply
Probed(s) == scan[s].opened = "ok" /\ scan[s].pc = "apply"

\* C9: in a batch with an open checker every target is checked, in order; a
\* target whose check raised gets Unknown, every other target gets the status
\* its own check returned, and the batch goes on to its apply
C9_PerItemIsolation ==
    /\ [](\A s \in Scans :
            Probed(s) =>
              /\ Len(scan[s].calls) = Len(scan[s].targets)
              /\ Len(scan[s].results) = Len(scan[s].targets)
              /\ \A i \in DOMAIN scan[s].targets :
                   /\ scan[s].calls[i].id = scan[s].targets[i].id
                   /\ scan[s].results[i].id = scan[s].targets[i].id
                   /\ scan[s].results[i].status =
                        IF scan[s].calls[i].out = Raise THEN "Unknown"
                        ELSE scan[s].calls[i].out)
    /\ [][\A s \in Scans :
            scan[s].pc = "probe" /\ scan'[s].pc # "probe"
              => scan'[s].pc = "apply"]_vars

\* C9 witness: the check of the first target raised and the second target
\* still has the Active its own check returned
C9_Witness ==
    \E s \in Scans :
       /\ Probed(s) /\ Len(scan[s].targets) = 2
       /\ scan[s].calls[1].out = Raise
       /\ scan[s].results[1].status = "Unknown"
       /\ scan[s].results[2].status = "Active"

\* C10: in a batch with an open checker each target is checked exactly once
\* and has exactly one result, whose status is Active, Stale or Unknown
C10_OneVerdictPerTarget ==
    \A s \in Scans :
       Probed(s) =>
         /\ Len(scan[s].results) = Len(scan[s].targets)
         /\ \A i \in DOMAIN scan[s].targets :
              /\ Cardinality({j \in DOMAIN scan[s].calls :
                                scan[s].calls[j].id = scan[s].targets[i].id}) = 1
              /\ Cardinality({j \in DOMAIN scan[s].results :
                                scan[s].results[j].id = scan[s].targets[i].id}) = 1
         /\ \A j \in DOMAIN scan[s].results :
              scan[s].results[j].status \in DhtStatus

\* C10 witness: a batch of two targets, one found Stale and one whose check
\* raised, has two calls and two results
C10_Witness ==
    \E s \in Scans :
       /\ Probed(s)
       /\ Len(scan[s].calls) = 2 /\ Len(scan[s].results) = 2
       /\ scan[s].results[1].status = "Stale"
       /\ scan[s].calls[2].out = Raise

\* the step in which the apply of scan s fails and its thread raises
ApplyFailed(s) ==
    /\ scan[s].pc = "apply"
    /\ scan'[s].pc = "threadDone"
    /\ scan'[s].outcome = "raised"

FullScanEnds(s) == scan[s].pc = "threadDone" /\ scan'[s].pc = "done"

\* full scan s was triggered through the scan-all endpoint
AdminTriggered(s) == http[s].state = "pending" \/ http[s].task = "started"

\* C12 (as claimed): when a full scan triggered through the scan-all
\* endpoint ends with the exception of its failed apply, the admin caller
\* who triggered it has an error response, whichever wait mode was used
C12_ApplyFailureReachesAdmin ==
    [][\A s \in FullScans :
         FullScanEnds(s) /\ AdminTriggered(s) /\ scan[s].outcome = "raised"
           => http'[s].state = "responded" /\ http'[s].status = 500]_vars

\* C13 (as claimed): with wait=false the endpoint answers {"queued": true}
\* in the step of the request, before its scan has started or finished
\* (whatever the state of the lock), and the scan it queued still runs to
\* completion; with wait=true it answers only in the step in which its scan
\* ends, with queued false and the number of statuses that scan changed
C13_WaitModes ==
    /\ [][\A s \in FullScans :
            /\ http[s].state = "none" /\ http'[s].task = "created"
                 => /\ http'[s].state = "responded"
                    /\ http'[s].status = 200
                    /\ http'[s].body = Body(TRUE, <<>>)
                    /\ scan'[s].pc = "idle"
            /\ http[s].state = "pending" /\ http'[s].state # "pending"
                 => /\ FullScanEnds(s)
                    /\ http'[s].state = "responded"
            /\ http[s].state = "pending" /\ http'[s].status = 200
                 => http'[s].body = Body(FALSE, <<scan[s].changed>>)]_vars
    /\ \A s \in FullScans :
         (http[s].task = "created") ~> (scan[s].pc = "done")

\* the scans that the step starts (moves out of idle)
StartedScans == {t \in Scans : scan[t].pc = "idle" /\ scan'[t].pc # "idle"}

\* C14: a scan-all request from a caller whose role is not Admin is answered
\* with 403 and starts no full scan, in the step of the request or later; a
\* request from an Admin with wait=true starts exactly one full scan, called
\* with the timeout_s of the request
C14_AdminOnlyScanAll ==
    /\ [](\A s \in FullScans :
            http[s].state # "none" /\ http[s].role # "Admin"
              => /\ http[s].state = "responded" /\ http[s].status = 403
                 /\ http[s].task = "none"
                 /\ scan[s].pc = "idle")
    /\ [][\A s \in FullScans :
            http[s].state = "none" /\ http'[s].state # "none" =>
              /\ http'[s].role # "Admin"
                   => StartedScans = {} /\ UNCHANGED <<scan, SCAN_ALL_LOCK>>
              /\ http'[s].role = "Admin" /\ http'[s].wait
                   => /\ StartedScans = {s}
                      /\ scan'[s].pc \in {"select", "waiting"}
                      /\ scan'[s].timeout_s = http'[s].timeout_s
                      /\ http'[s].task = "none"]_vars

\* C14 witness: a Publisher's request was answered 403 and its scan never
\* started, while the scan of an Admin's wait=true&timeout_s=1 request is
\* under way with timeout_s 1
C14_Witness ==
    \E s, t \in FullScans :
       /\ http[s].role = "Publisher" /\ http[s].status = 403
       /\ scan[s].pc = "idle"
       /\ http[t].role = "Admin" /\ http[t].wait /\ http[t].state = "pending"
       /\ http[t].timeout_s = <<1>> /\ scan[t].timeout_s = <<1>>
       /\ scan[t].pc = "probe"

\* the step in which scan s makes its selection
Selects(s) == scan[s].pc = "select" /\ scan'[s].pc # "select"

\* the resources whose takedown marker is absent
NotTakenDown == {r \in RIDs : resources[r].exists /\ ~resources[r].takedown_at}

\* C15: a full selection (limit None) returns every resource whose takedown
\* marker is absent and none whose marker is set, each once, in ascending id
\* order; and no selection, full or sampled, returns a resource that was
\* taken down when the selection started
C15_FullSelection ==
    [][\A s \in Scans :
         Selects(s) =>
           LET rows == scan'[s].targets
           IN /\ \A i \in DOMAIN rows : rows[i].id \in NotTakenDown
              /\ scan[s].limit = <<>> =>
                   /\ {rows[i].id : i \in DOMAIN rows} = NotTakenDown
                   /\ Len(rows) = Cardinality(NotTakenDown)
                   /\ \A i, j \in DOMAIN rows : i < j => rows[i].id < rows[j].id]_vars

\* C15 witness: of two resources the first was taken down before a full scan
\* selected, and the scan's targets are the second alone
C15_Witness ==
    \E s \in FullScans :
       /\ scan[s].pc = "probe"
       /\ resources[1].exists /\ resources[1].takedown_at
       /\ Len(scan[s].targets) = 1 /\ scan[s].targets[1].id = 2

\* C16 (as claimed): for every non-negative integer N passed as sample_size,
\* the selection of a sampled scan has at most N resources, all distinct and
\* none taken down, and has every eligible resource when fewer than N are
\* eligible; and the probing phase checks no resource outside the selection
C16_SampleSizeBounds ==
    [][\A s \in SampledScans :
         /\ Selects(s) /\ scan[s].sample_size # <<>> =>
              LET N == scan[s].sample_size[1]
                  rows == scan'[s].targets
              IN /\ Len(rows) <= N
                 /\ \A i, j \in DOMAIN rows : i # j => rows[i].id # rows[j].id
                 /\ \A i \in DOMAIN rows : rows[i].id \in NotTakenDown
                 /\ Cardinality(NotTakenDown) < N
                      => {rows[i].id : i \in DOMAIN rows} = NotTakenDown
         /\ scan[s].pc = "probe" /\ scan'[s].pc # "probe" =>
              \A j \in DOMAIN scan'[s].calls :
                 \E i \in DOMAIN scan[s].targets :
                    scan[s].targets[i].id = scan'[s].calls[j].id]_vars

\* the last check of the checker has returned a probe
CheckReturned == checker.pc \in {"idle", "closed"} /\ checker.outcome = "returned"

\* the largest peer count among the polls obs (0 when there was none)
MaxObserved(obs) ==
    IF obs = <<>> THEN 0
    ELSE CHOOSE n \in {obs[i].num_peers : i \in DOMAIN obs} :
           \A i \in DOMAIN obs : obs[i].num_peers <= n

\* C17: the verdict of a check that returned is Active exactly when some poll
\* of that check saw metadata or a peer count above 0 (whatever the last poll
\* saw), and Stale otherwise; the reported peer count is the maximum over all
\* polls; a Stale verdict carries peer count 0 and no metadata
C17_VerdictFromAllPolls ==
    CheckReturned =>
      LET obs == checker.observed
          seen == \E i \in DOMAIN obs :
                     obs[i].has_metadata \/ obs[i].num_peers > 0
      IN /\ checker.probe.status = IF seen THEN "Active" ELSE "Stale"
         /\ checker.probe.num_peers = MaxObserved(obs)
         /\ checker.probe.status = "Stale"
              => checker.probe.num_peers = 0 /\ ~checker.probe.has_metadata

\* C17 witness: a check of two polls, the first with peers and the last with
\* none, no metadata, has returned Active with the first poll's peer count
C17_Witness ==
    /\ CheckReturned
    /\ Len(checker.observed) = 2
    /\ checker.observed[1].num_peers = MaxPeers
    /\ checker.observed[2].num_peers = 0
    /\ ~checker.observed[1].has_metadata /\ ~checker.observed[2].has_metadata
    /\ checker.probe = MagnetProbe("Active", MaxPeers, FALSE)

\* C18 (as claimed): once the session is constructed, check never raises:
\* when adding the magnet or a poll fails it returns a verdict instead
C18_CheckNeverRaises == checker.outcome # "raised"

\* a check is between its add_magnet_uri and the end of its finally block
CheckInProgress == checker.pc \in {"poll", "finally"}

\* C19: between checks (and after close) no handle is attached to the
\* session; the handle of a check in progress is the only one attached and
\* has not been removed yet; the step that ends a check, by returning or
\* with the exception of a failed poll, removes that handle; and no handle
\* is removed twice
C19_HandleRemovedOnce ==
    /\ [](~CheckInProgress => checker.torrents = {} /\ checker.handle = 0)
    /\ [](CheckInProgress =>
            /\ checker.torrents = {checker.handle}
            /\ \A i \in DOMAIN checker.removed :
                 checker.removed[i] # checker.handle)
    /\ [](\A i, j \in DOMAIN checker.removed :
            i # j => checker.removed[i] # checker.removed[j])
    /\ [][IF CheckInProgress /\ ~CheckInProgress'
          THEN checker'.removed = Append(checker.removed, checker.handle)
          ELSE checker'.removed = checker.removed]_vars

\* C19 witness: two checks have ended on one session, the last with the
\* exception of a failed poll; both handles were removed and none is attached
C19_Witness ==
    /\ checker.pc = "idle"
    /\ checker.checks = 2
    /\ checker.outcome = "raised"
    /\ checker.removed = <<1, 2>>
    /\ checker.torrents = {}

\* C20 (as claimed): for every batch with at least one target the close of
\* the session is attempted exactly once before the apply, after all targets
\* or on the early exit taken when the session could not be opened; whatever
\* close does, the batch goes on to its apply with a result for every target,
\* and a committed apply returns its count
C20_CloseOnceThenApply ==
    /\ [](\A s \in Scans :
            scan[s].pc = "apply" =>
              /\ scan[s].targets # <<>>
              /\ scan[s].closes = 1
              /\ Len(scan[s].results) = Len(scan[s].targets))
    /\ [][\A s \in Scans :
            /\ scan[s].pc = "probe" /\ scan'[s].pc # "probe"
                 => scan'[s].pc = "apply"
            /\ scan[s].pc # "probe" => scan'[s].closes \in {scan[s].closes, 0}
            /\ ApplyCommitted(s) /\ scan[s].opened = "ok"
                 => scan'[s].ret = Cardinality(StatusChanges)]_vars

\* C20 (amended): for every batch whose session was opened, close is
\* attempted exactly once, after all targets are processed, and when the
\* session could not be opened no close is attempted; whatever close does,
\* the batch goes on to its apply with a result for every target, and the
\* committed apply of a batch with an opened session returns its count
C20_CloseOnceWhenOpened ==
    /\ [](\A s \in Scans :
            scan[s].pc = "apply" =>
              /\ scan[s].targets # <<>>
              /\ scan[s].closes = (IF scan[s].opened = "ok" THEN 1 ELSE 0)
              /\ scan[s].opened = "ok"
                   => Len(scan[s].calls) = Len(scan[s].targets)
              /\ Len(scan[s].results) = Len(scan[s].targets))
    /\ [][\A s \in Scans :
            /\ scan[s].pc = "probe" /\ scan'[s].pc # "probe"
                 => scan'[s].pc = "apply"
            /\ scan[s].pc # "probe" => scan'[s].closes \in {scan[s].closes, 0}
            /\ ApplyCommitted(s) /\ scan[s].opened = "ok"
                 => scan'[s].ret = Cardinality(StatusChanges)]_vars

\* C20 witness: the close of a batch of two targets raised; the batch has
\* its two results, one close attempt, and awaits its apply
C20_Witness ==
    \E s \in Scans :
       /\ scan[s].pc = "apply" /\ scan[s].closeRaised
       /\ scan[s].closes = 1
       /\ Len(scan[s].results) = 2
       /\ scan[s].results[1].status = "Active"

\* ---------------------------------------------------------------- C21
\* the checker session of scan s is open: the factory returned it and
\* close() has not been called on it
SessionOpen(s) == scan[s].opened = "ok" /\ scan[s].closes < scan[s].opens

\* scan s is between its start and its end
InProgress(s) == scan[s].pc \notin {"idle", "done"}

\* C21: a batch with at least one target calls the checker factory exactly
\* once; every check is made while that one session is open, one check per
\* step and on the batch's own session only (a check step adds one call to
\* one scan and opens no session); when the batch reaches its apply step
\* the factory has been called once and a session that was opened has been
\* closed once; and at most one full scan has a session open, so that the
\* sessions open at once are at most one plus the sampled scans in progress.
C21_OneSessionPerBatch ==
    [][ /\ \A s \in Scans :
             /\ scan'[s].opens <= 1
             /\ scan'[s].pc = "apply" => scan'[s].opens = 1
             /\ scan'[s].pc \in {"apply", "threadDone"}
                  => scan'[s].closes = IF scan'[s].opened = "ok" THEN 1 ELSE 0
             /\ Len(scan'[s].calls) > Len(scan[s].calls)
                  => /\ SessionOpen(s) /\ SessionOpen(s)'
                     /\ scan'[s].opens = scan[s].opens
                     /\ Len(scan'[s].calls) = Len(scan[s].calls) + 1
                     /\ \A t \in Scans \ {s} : scan'[t] = scan[t]
        /\ Cardinality({s \in FullScans : SessionOpen(s)'}) <= 1
        /\ Cardinality({s \in Scans : SessionOpen(s)'})
             <= 1 + Cardinality({s \in SampledScans : InProgress(s)'})
      ]_vars

\* C21 witness: a full scan and a sampled scan have their sessions open at
\* the same time, each with a check already made on it
C21_Witness ==
    \E f \in FullScans, s \in SampledScans :
        /\ SessionOpen(f) /\ SessionOpen(s)
        /\ scan[f].calls # <<>> /\ scan[s].calls # <<>>
        /\ Len(scan[f].targets) = NumRes

\* ---------------------------------------------------------------- C22
\* the phases an invocation may enter next from each phase
NextPhases(pc) ==
    CASE pc = "idle" -> {"waiting", "select"}
      [] pc = "waiting" -> {"select"}
      [] pc = "select" -> {"probe", "threadDone"}
      [] pc = "probe" -> {"apply"}
      [] pc = "apply" -> {"threadDone"}
      [] pc = "threadDone" -> {"done"}
      [] OTHER -> {}

\* C22: a full-scan invocation moves through acquire, select, probe, apply
\* in this order only (a step that changes its phase enters one of the
\* phases that follow it; an empty selection ends the thread at once); check
\* is called only in the step that leaves the probe phase, once for each
\* selected target; the step that ends the invocation, after the thread
\* returned or raised, leaves the lock released; and every invocation that
\* was started ends.
C22_PhasesInOrder ==
    /\ [][\A s \in FullScans :
            /\ scan'[s].pc # scan[s].pc => scan'[s].pc \in NextPhases(scan[s].pc)
            /\ scan'[s].pc \in {"select", "probe", "apply"} \ {scan[s].pc}
                 => SCAN_ALL_LOCK'.locked
            /\ scan'[s].calls # scan[s].calls /\ scan'[s].calls # <<>>
                 => /\ scan[s].pc = "probe" /\ scan[s].calls = <<>>
                    /\ Len(scan'[s].calls) = Len(scan[s].targets)
                    /\ \A i \in DOMAIN scan'[s].calls :
                         scan'[s].calls[i].id = scan[s].targets[i].id
                    /\ \A i, j \in DOMAIN scan'[s].calls :
                         i # j => scan'[s].calls[i].id # scan'[s].calls[j].id
            /\ scan[s].pc = "threadDone" /\ scan'[s].pc = "done"
                 => /\ scan[s].outcome \in {"returned", "raised"}
                    /\ ~SCAN_ALL_LOCK'.locked]_vars
    /\ \A s \in FullScans : (scan[s].pc # "idle") ~> (scan[s].pc = "done")

\* C22 witness: a full scan that went through all its phases and raised in
\* its apply is about to end, holding the lock, while another one waits
C22_Witness ==
    \E s, t \in FullScans :
       /\ scan[s].pc = "threadDone" /\ scan[s].outcome = "raised"
       /\ scan[s].opened = "ok" /\ scan[s].opens = 1
       /\ SCAN_ALL_LOCK.locked
       /\ scan[t].pc = "waiting"

\* ---------------------------------------------------------------- C23
\* C23: every call of check ends; with a positive timeout a check that
\* returned has polled at least once, no check polls more often than its
\* timeout in seconds, and no poll follows one that saw the metadata; hence
\* a batch that has selected its targets reaches its apply step.
C23_CheckTerminates ==
    /\ [](Len(checker.observed) <= checker.timeout_s)
    /\ [](CheckReturned /\ checker.timeout_s > 0 => Len(checker.observed) >= 1)
    /\ [](\A i \in DOMAIN checker.observed :
            checker.observed[i].has_metadata
              => i = Len(checker.observed) /\ checker.pc # "poll")
    /\ CheckInProgress ~> (checker.pc = "idle")
    /\ \A s \in Scans :
         (scan[s].pc \in {"probe", "checking"}) ~> (scan[s].pc = "apply")

\* C23 witness: a batch reaches its apply step after a check for each of
\* its targets, the last of which polled until its timeout had passed
C23_Witness ==
    /\ scan[BatchScan].pc = "apply"
    /\ scan[BatchScan].opened = "ok"
    /\ Len(scan[BatchScan].calls) = NumRes
    /\ checker.outcome = "returned"
    /\ Len(checker.observed) = MaxTimeout
    /\ \A i \in DOMAIN checker.observed : ~checker.observed[i].has_metadata

\* ---------------------------------------------------------------- C24
\* C24: a resource's last_dht_check is non-null exactly when a probe of its
\* magnet has been run since it was created. The one scan of BatchSpec
\* starts on resources that were never probed, so after its committed apply
\* the resources with a check time are those check was called for.
C24_StampedIffProbed ==
    [][ /\ scan[BatchScan].pc = "apply"
        /\ scan'[BatchScan].pc = "threadDone"
        /\ scan'[BatchScan].outcome = "returned"
        => \A r \in RIDs :
             resources'[r].last_dht_check # 0
               <=> \E i \in DOMAIN scan[BatchScan].calls :
                     scan[BatchScan].calls[i].id = r
      ]_vars

\* ---------------------------------------------------------------- C28
\* C28: no step changes the dht_status or the last_dht_check of a resource
\* that is taken down when the step is taken; the steps that write these
\* fields are the applies of the scans
C28_NoWriteAfterTakedown ==
    [][\A r \in RIDs :
         resources[r].exists /\ resources[r].takedown_at
           => /\ resources'[r].dht_status = resources[r].dht_status
              /\ resources'[r].last_dht_check = resources[r].last_dht_check
      ]_vars

\* ---------------------------------------------------------------- C26
\* C26: a step of a scan leaves every field of every resource other than
\* dht_status and last_dht_check as it was, updated_at, magnet_uri and
\* takedown_at included, and leaves the resources its results do not name
\* untouched
C26_ScanFrame ==
    [][\A s \in Scans :
         scan'[s] # scan[s]
           => \A r \in RIDs :
                /\ resources'[r].updated_at = resources[r].updated_at
                /\ resources'[r].magnet_uri = resources[r].magnet_uri
                /\ resources'[r].takedown_at = resources[r].takedown_at
                /\ resources'[r].exists = resources[r].exists
                /\ (\A i \in DOMAIN scan[s].results : scan[s].results[i].id # r)
                     => resources'[r] = resources[r]
      ]_vars

\* ---------------------------------------------------------------- C30
\* C30: a stored dht_status of Active or Stale is a verdict for the magnet
\* the resource has now: a step that gives a resource another magnet_uri
\* does not leave it Active or Stale, and the committed apply of a scan
\* leaves no resource Active or Stale on a result that was obtained for a
\* magnet_uri other than the one the resource has
C30_VerdictOfCurrentMagnet ==
    [][ /\ \A r \in RIDs :
             resources[r].exists /\ resources'[r].magnet_uri # resources[r].magnet_uri
               => resources'[r].dht_status = "Unknown"
        /\ \A s \in Scans :
             ApplyCommitted(s)
               => \A i \in DOMAIN scan[s].targets :
                    LET r == scan[s].targets[i].id
                    IN resources'[r].exists
                       /\ resources'[r].dht_status \in {"Active", "Stale"}
                         => scan[s].targets[i].magnet_uri = resources'[r].magnet_uri
      ]_vars

\* ---------------------------------------------------------------- C27
\* C27: while the thread of a full scan is selecting, probing or applying,
\* the lock is held and no other full scan is selecting, probing or
\* applying, also after the task that awaits the thread was cancelled
C27_LockHeldUntilThreadEnds ==
    \A s \in FullScans :
        scan[s].cancelled /\ InPhase(s)
          => /\ SCAN_ALL_LOCK.locked
             /\ \A t \in FullScans \ {s} : ~InPhase(t)

\* ---------------------------------------------------------------- C29
\* C29: when a run of the build pipeline completes while a public resource
\* has a dht_status other than the one the run exported (a scan's apply
\* changed it after the export and marked the build pending), the build is
\* still pending after the run
C29_ChangeStaysPending ==
    [][ /\ pipeline.pc = "deploy"
        /\ pipeline'.pc = "idle" /\ pipeline'.outcome = "built"
        /\ \E r \in Public(resources) :
              resources[r].dht_status # pipeline.exported[r]
        => buildState'.pending_changes
      ]_vars

\* ---------------------------------------------------------------- C25
\* the scans whose apply commits in this step with a result for resource r
Committing(r) ==
    {s \in Scans : /\ scan[s].pc \in {"apply", "flush"}
                   /\ scan'[s].pc = "threadDone"
                   /\ scan'[s].outcome = "returned"
                   /\ \E i \in DOMAIN scan[s].results : scan[s].results[i].id = r}

\* C25: the stored dht_status of a resource changes only in the step in
\* which an apply containing it commits, and after that step it is the
\* status this apply carried for it; the step writes all the results of the
\* apply at once. The stored status is then always that of the apply
\* committed last.
C25_LastCommittedApplyWins ==
    [][\A r \in RIDs :
         /\ Committing(r) = {}
              => resources'[r].dht_status = resources[r].dht_status
         /\ \A s \in Committing(r) :
              \A i \in DOMAIN scan[s].results :
                 scan[s].results[i].id = r /\ resources[r].exists
                   => resources'[r].dht_status = scan[s].results[i].status
      ]_vars

====
